---- MODULE Spec2Model ----
(***************************************************************************)
(* Model of snakemake/remote/DiracSE.py: the DIRAC storage-element remote  *)
(* provider.  Text is a sequence of one-character strings, so that the     *)
(* substring tests and the prefix replacement are computed character by    *)
(* character, as Python's `in` and str.replace compute them.               *)
(***************************************************************************)
EXTENDS Integers, Sequences, FiniteSets, TLC

VARIABLES which, module, import_error, DIRAC_ENV_WRAPPER, provider, obj, disk,
          op, pc, i, retry, raise_workflow_error, _cmd, runs, log, dres, result

vars == <<which, module, import_error, DIRAC_ENV_WRAPPER, provider, obj, disk,
          op, pc, i, retry, raise_workflow_error, _cmd, runs, log, dres, result>>

(* ---------------------------- bounds ---------------------------------- *)
MaxRetry == 2
MaxChunks == 3
MaxPathChunks == 3

(* ------------------------- text primitives ---------------------------- *)
RECURSIVE Concat(_)
Concat(ss) == IF ss = <<>> THEN <<>> ELSE Head(ss) \o Concat(Tail(ss))

\* Python: sub in s
In(sub, s) ==
  \E k \in 0..(Len(s) - Len(sub)) : SubSeq(s, k + 1, k + Len(sub)) = sub

StartsWith(s, p) == Len(s) >= Len(p) /\ SubSeq(s, 1, Len(p)) = p

\* Python: s.replace(old, new), old non-empty: every non-overlapping
\* occurrence, scanning left to right
RECURSIVE Replace(_, _, _)
Replace(s, old, new) ==
  IF s = <<>> THEN <<>>
  ELSE IF StartsWith(s, old)
       THEN new \o Replace(SubSeq(s, Len(old) + 1, Len(s)), old, new)
       ELSE <<Head(s)>> \o Replace(Tail(s), old, new)

\* Python: s.rstrip("/")
RECURSIVE RStripSlash(_)
RStripSlash(s) ==
  IF s /= <<>> /\ s[Len(s)] = "/" THEN RStripSlash(SubSeq(s, 1, Len(s) - 1))
  ELSE s

\* Python: s.rfind("/") + 1
RFindSlash(s) ==
  LET hits == {k \in 1..Len(s) : s[k] = "/"} IN
  IF hits = {} THEN 0 ELSE CHOOSE k \in hits : \A h \in hits : h <= k

\* os.path.dirname(path) (posixpath)
Dirname(p) ==
  LET head == SubSeq(p, 1, RFindSlash(p)) IN
  IF head /= <<>> /\ (\E k \in 1..Len(head) : head[k] /= "/")
  THEN RStripSlash(head) ELSE head

\* the process's working directory
Cwd == <<"/", "w">>

\* os.path.abspath(path) for a path without ".", ".." or empty components
Abspath(p) == IF StartsWith(p, <<"/">>) THEN p ELSE Cwd \o <<"/">> \o p

(* ------------------- literals of the source --------------------------- *)
\* "LFN://"
Scheme == <<"L", "F", "N", ":", "/", "/">>
\* "Downloading file to"
DownloadingMarker ==
  <<"D", "o", "w", "n", "l", "o", "a", "d", "i", "n", "g", " ",
    "f", "i", "l", "e", " ", "t", "o">>
\* "Failed :"
FailedMarker == <<"F", "a", "i", "l", "e", "d", " ", ":">>
\* "Successful :"
SuccessfulMarker ==
  <<"S", "u", "c", "c", "e", "s", "s", "f", "u", "l", " ", ":">>
\* "Successful : "
UploadMarker == SuccessfulMarker \o <<" ">>
\* " : " of the f-string f"{lfn} : {path}"
PairSep == <<" ", ":", " ">>
\* defaultSE = "CERN-USER"
defaultSE == "CERN-USER"
\* time.sleep(1)
SleepSeconds == 1
\* RemoteProvider.__init__(retry=2)
DefaultRetry == 2

(* --------------------------- Python values ---------------------------- *)
None == [t |-> "None", b |-> FALSE, s |-> <<>>]
Bool(x) == [t |-> "bool", b |-> x, s |-> <<>>]
Str(x) == [t |-> "str", b |-> FALSE, s |-> x]

NoOutcome == [kind |-> "none", value |-> None, exc |-> "", arg |-> <<>>]
Return(v) == [kind |-> "return", value |-> v, exc |-> "", arg |-> <<>>]
\* an exception of class exc whose message embeds the text arg
Raise(exc, arg) == [kind |-> "raise", value |-> None, exc |-> exc, arg |-> arg]

(* ------------------------------ inputs -------------------------------- *)
\* retry values a caller can pass: nothing in the source restricts them
RetryValues == (-1..MaxRetry) \cup {DefaultRetry}

\* texts made of at most n chunks
TextsOver(chunks, n) ==
  {Concat(cs) : cs \in UNION {[1..k -> chunks] : k \in 0..n}}

\* remote_file() values of the objects of the provider
RemoteFiles == {Scheme \o <<"a">>, Scheme \o Scheme \o <<"a">>}
\* local_file() values
LocalFiles == {<<"d", "/", "a">>}

\* stdout and stderr of an attempt that exits non-zero
FailStdouts == {<<>>, <<"p">>}
Stderrs == {<<"e">>, <<"f">>}

\* "Failed:" (no space) is not the failure marker
MetadataChunks == {FailedMarker, <<"F", "a", "i", "l", "e", "d", ":">>, <<"o", "k">>}
\* lfn \o ":" \o path is not the pair the source looks for
GetFileChunks(lfn, path) ==
  {DownloadingMarker, SuccessfulMarker, FailedMarker,
   lfn \o PairSep \o path, lfn \o <<":">> \o path}
AddFileChunks == {UploadMarker, SuccessfulMarker, FailedMarker}

\* stdout of a zero-exit run of the tool, as the text .stdout.decode()
\* yields: the tools write text, and the source reads nothing but the text
Stdouts(tool, lfn, path) ==
  IF tool = "dirac-dms-get-file" THEN TextsOver(GetFileChunks(lfn, path), MaxChunks)
  ELSE IF tool = "dirac-dms-add-file" THEN TextsOver(AddFileChunks, MaxChunks)
  ELSE TextsOver(MetadataChunks, MaxChunks)

(* ------------------------- module initialisation ---------------------- *)
\* mutant: the elif branch that raises is missing
DetectWrapper_noraise(lb, base) ==
  IF lb THEN [ok |-> TRUE, wrapper |-> "lb-dirac"]
  ELSE [ok |-> TRUE, wrapper |-> ""]

\* lines 19-29: the wrapper, or the WorkflowError of the import
DetectWrapper(lb, base) ==
  IF lb THEN [ok |-> TRUE, wrapper |-> "lb-dirac"]
  ELSE IF ~base THEN [ok |-> FALSE, wrapper |-> ""]
  ELSE [ok |-> TRUE, wrapper |-> ""]

(* ------------------------------ _dirac -------------------------------- *)
\* lines 78-79
EffectiveRetry(override, provider_retry) ==
  IF ~override.given THEN provider_retry ELSE override.value

\* line 80
BuildCmd(wrapper, cmd, args) == <<wrapper>> \o <<cmd>> \o args

\* mutant: range(retry)
Range_short(r) == 0..(r - 1)

\* line 81: range(retry + 1)
Range(r) == 0..r

\* mutant: the last attempt is recognised one pass too late
LastAttempt_late(k, r) == k = r + 1

\* line 88
LastAttempt(k, r) == k = r

\* what sp.run(_cmd, check=True) can do: with an empty first element the
\* exec fails with an OSError (PermissionError or FileNotFoundError); no
\* process runs
RunKinds(cmdline) ==
  IF cmdline[1] = "" THEN {"oserror"} ELSE {"zero", "nonzero"}

\* mutant: a zero exit before the last attempt does not return
Attempt_retry_after_success(k, r, rwe, run) ==
  IF run.rc = "zero" /\ k = r
  THEN [next |-> "done", out |-> Return(Str(run.stdout))]
  ELSE IF run.rc = "nonzero" /\ k = r
  THEN IF rwe
       THEN [next |-> "done", out |-> Raise("WorkflowError", run.stderr)]
       ELSE [next |-> "done", out |-> Raise("CalledProcessError", run.stderr)]
  ELSE IF run.rc = "oserror"
  THEN [next |-> "done", out |-> Raise("OSError", <<>>)]
  ELSE [next |-> "sleep", out |-> NoOutcome]

\* lines 82-100: one pass of the loop body on the outcome run of sp.run
Attempt(k, r, rwe, run) ==
  IF run.rc = "zero" THEN [next |-> "done", out |-> Return(Str(run.stdout))]
  ELSE IF run.rc = "nonzero"
  THEN IF LastAttempt(k, r)
       THEN IF rwe
            THEN [next |-> "done", out |-> Raise("WorkflowError", run.stderr)]
            ELSE [next |-> "done", out |-> Raise("CalledProcessError", run.stderr)]
       ELSE [next |-> "sleep", out |-> NoOutcome]
  ELSE [next |-> "done", out |-> Raise("OSError", <<>>)]

(* ------------------------- the operations ----------------------------- *)
\* lines 102-104
_lfn(path) == Replace(path, Scheme, <<>>)

\* lines 106-120: the except clause around _dirac
WrapProcessError(d) ==
  IF d.kind = "raise" /\ d.exc = "CalledProcessError"
  THEN Raise("WorkflowError", d.arg) ELSE d

\* mutant: a zero exit alone means that the file is present
exists_exitcode(d) ==
  IF d.kind = "raise"
  THEN (IF d.exc = "CalledProcessError" THEN Raise("WorkflowError", d.arg) ELSE d)
  ELSE IF d.value.t /= "str" THEN Raise("TypeError", <<>>)
  ELSE Return(Bool(TRUE))

\* lines 124-128
exists(d) ==
  LET m == WrapProcessError(d) IN
  IF m.kind = "raise" THEN m
  ELSE IF m.value.t /= "str" THEN Raise("TypeError", <<>>)
  ELSE Return(Bool(~In(FailedMarker, m.value.s)))

\* mutant: the local path is not looked for on disk
download_ignores_disk(d, lfn, path, local_file_exist) ==
  IF d.kind = "raise"
  THEN (IF d.exc = "CalledProcessError" THEN Raise("WorkflowError", d.arg) ELSE d)
  ELSE IF d.value.t /= "str" THEN Raise("TypeError", <<>>)
  ELSE IF ~In(DownloadingMarker, d.value.s) THEN Raise("AssertionError", <<>>)
  ELSE IF In(FailedMarker, d.value.s) THEN Raise("WorkflowError", d.value.s)
  ELSE IF In(SuccessfulMarker, d.value.s) /\ In(lfn \o PairSep \o path, d.value.s)
       THEN Return(Str(path))
       ELSE Return(None)

\* lines 163-189; assert statements are executed (no -O)
download(d, lfn, path, local_file_exist) ==
  LET m == WrapProcessError(d) IN
  IF m.kind = "raise" THEN m
  ELSE IF m.value.t /= "str" THEN Raise("TypeError", <<>>)
  ELSE IF ~In(DownloadingMarker, m.value.s) THEN Raise("AssertionError", <<>>)
  ELSE IF In(FailedMarker, m.value.s) THEN Raise("WorkflowError", m.value.s)
  ELSE IF /\ In(SuccessfulMarker, m.value.s)
          /\ In(lfn \o PairSep \o path, m.value.s)
          /\ local_file_exist
       THEN Return(Str(path))
       ELSE Return(None)

\* mutant: the assert is missing
upload_noassert(d) ==
  IF d.kind = "raise"
  THEN (IF d.exc = "CalledProcessError" THEN Raise("WorkflowError", d.arg) ELSE d)
  ELSE IF d.value.t /= "str" THEN Raise("TypeError", <<>>)
  ELSE Return(Bool(In(UploadMarker, d.value.s)))

\* lines 204-212; assert statements are executed (no -O)
upload(d) ==
  LET m == WrapProcessError(d) IN
  IF m.kind = "raise" THEN m
  ELSE IF m.value.t /= "str" THEN Raise("TypeError", <<>>)
  ELSE IF ~In(UploadMarker, m.value.s) THEN Raise("AssertionError", <<>>)
  ELSE Return(Bool(In(UploadMarker, m.value.s)))

\* the code that follows the return of _dirac in operation o
Continue(o, d, object, exists_on_disk) ==
  IF o = "exists" THEN exists(d)
  ELSE IF o = "download"
       THEN download(d, _lfn(object.remote_file), object.local_file, exists_on_disk)
  ELSE IF o = "upload" THEN upload(d)
  ELSE d

(* ------------------------------- state -------------------------------- *)
\* the retry keyword of a _dirac call: absent (None) or a value
NoOverride == [given |-> FALSE, value |-> 0]
Overrides == {NoOverride} \cup {[given |-> TRUE, value |-> r] : r \in RetryValues}

NoObject == [made |-> FALSE, remote_file |-> <<>>, local_file |-> <<>>]
NoProvider == [made |-> FALSE, retry |-> 0]

RunEvent == [e |-> "run", secs |-> 0]
SleepEvent(n) == [e |-> "sleep", secs |-> n]

CallIdle ==
  /\ op = "idle" /\ pc = "idle" /\ i = 0 /\ retry = 0
  /\ raise_workflow_error = TRUE /\ _cmd = <<>> /\ runs = <<>> /\ log = <<>>
  /\ dres = NoOutcome /\ result = NoOutcome

\* before the module is imported; which holds what shutil.which finds
Init ==
  /\ which \in [lb : BOOLEAN, base : BOOLEAN]
  /\ module = "unloaded" /\ import_error = "" /\ DIRAC_ENV_WRAPPER = ""
  /\ provider = NoProvider /\ obj = NoObject /\ disk = FALSE
  /\ CallIdle

\* lines 19-29: import of the module
Import ==
  /\ module = "unloaded"
  /\ LET d == DetectWrapper(which.lb, which.base) IN
       /\ module' = IF d.ok THEN "loaded" ELSE "failed"
       /\ import_error' = IF d.ok THEN "" ELSE "WorkflowError"
       /\ DIRAC_ENV_WRAPPER' = d.wrapper
  /\ UNCHANGED <<which, provider, obj, disk, op, pc, i, retry,
                 raise_workflow_error, _cmd, runs, log, dres, result>>

\* lines 37-53: RemoteProvider(retry=r)
ProviderInit(r) ==
  /\ module = "loaded" /\ ~provider.made
  /\ provider' = [made |-> TRUE, retry |-> r]
  /\ UNCHANGED <<which, module, import_error, DIRAC_ENV_WRAPPER, obj, disk,
                 op, pc, i, retry, raise_workflow_error, _cmd, runs, log,
                 dres, result>>

\* lines 72-75: RemoteObject(provider=provider) for a file; e says whether
\* the local path is on disk already
ObjectInit(rf, lf, e) ==
  /\ provider.made /\ ~obj.made
  /\ obj' = [made |-> TRUE, remote_file |-> rf, local_file |-> lf]
  /\ disk' = e
  /\ UNCHANGED <<which, module, import_error, DIRAC_ENV_WRAPPER, provider,
                 op, pc, i, retry, raise_workflow_error, _cmd, runs, log,
                 dres, result>>

\* lines 77-81: entry of _dirac on behalf of operation o, up to the first
\* test of the loop; an empty range falls through to the implicit return None
Enter(o, cmd, args, override, rwe) ==
  /\ obj.made /\ pc = "idle"
  /\ LET r == EffectiveRetry(override, provider.retry) IN
       /\ op' = o
       /\ retry' = r
       /\ raise_workflow_error' = rwe
       /\ _cmd' = BuildCmd(DIRAC_ENV_WRAPPER, cmd, args)
       /\ i' = 0
       /\ IF 0 \in Range(r)
          THEN pc' = "run" /\ dres' = NoOutcome /\ result' = NoOutcome
          ELSE /\ pc' = "done"
               /\ dres' = Return(None)
               /\ result' = Continue(o, Return(None), obj, disk)
  /\ UNCHANGED <<which, module, import_error, DIRAC_ENV_WRAPPER, provider,
                 obj, disk, runs, log>>

\* a direct call self._dirac(cmd, lfn, retry=..., raise_workflow_error=...)
Call_dirac(override, rwe) ==
  Enter("_dirac", "dirac-dms-lfn-metadata", <<_lfn(obj.remote_file)>>,
        override, rwe)

\* lines 124-126 with 106-112
CallExists ==
  Enter("exists", "dirac-dms-lfn-metadata", <<_lfn(obj.remote_file)>>,
        NoOverride, FALSE)

\* lines 152-162
CallDownload ==
  Enter("download", "dirac-dms-get-file",
        <<"-D", Dirname(obj.local_file), _lfn(obj.remote_file)>>,
        NoOverride, FALSE)

\* lines 194-203
CallUpload ==
  Enter("upload", "dirac-dms-add-file",
        <<_lfn(obj.remote_file), Abspath(obj.local_file), defaultSE>>,
        NoOverride, FALSE)

\* lines 102-104: self._lfn()
Call_lfn ==
  /\ obj.made /\ pc = "idle"
  /\ op' = "_lfn" /\ pc' = "done"
  /\ result' = Return(Str(_lfn(obj.remote_file)))
  /\ UNCHANGED <<which, module, import_error, DIRAC_ENV_WRAPPER, provider,
                 obj, disk, i, retry, raise_workflow_error, _cmd, runs, log,
                 dres>>

\* the outcomes of running _cmd once; the fetch tool may write the local file
RunsOf(cmdline, object) ==
  LET kinds == RunKinds(cmdline)
      outs == Stdouts(cmdline[2], _lfn(object.remote_file), object.local_file)
  IN  {[rc |-> "zero", stdout |-> t, stderr |-> <<>>] :
         t \in IF "zero" \in kinds THEN outs ELSE {}}
      \cup {[rc |-> "nonzero", stdout |-> t, stderr |-> e] :
              t \in IF "nonzero" \in kinds THEN FailStdouts ELSE {}, e \in Stderrs}
      \cup {[rc |-> "oserror", stdout |-> <<>>, stderr |-> <<>>] :
              t \in IF "oserror" \in kinds THEN {0} ELSE {}}

\* lines 82-100: one pass of the loop body: sp.run, then the return, the
\* raise, or the branch to the sleep; when _dirac ends, the rest of the
\* operation that called it runs too
RunProcess ==
  /\ pc = "run"
  /\ \E run \in RunsOf(_cmd, obj), written \in BOOLEAN :
       LET a == Attempt(i, retry, raise_workflow_error, run)
           e == disk \/ (written /\ op = "download" /\ run.rc /= "oserror")
       IN
       /\ (written => op = "download" /\ run.rc /= "oserror" /\ ~disk)
       /\ runs' = Append(runs, run)
       /\ log' = Append(log, RunEvent)
       /\ disk' = e
       /\ IF a.next = "sleep"
          THEN pc' = "sleep" /\ UNCHANGED <<dres, result>>
          ELSE /\ pc' = "done"
               /\ dres' = a.out
               /\ result' = Continue(op, a.out, obj, e)
  /\ UNCHANGED <<which, module, import_error, DIRAC_ENV_WRAPPER, provider,
                 obj, op, i, retry, raise_workflow_error, _cmd>>

\* lines 98-100 and 81: time.sleep(1), continue, next value of the range;
\* an exhausted range falls through to the implicit return None
Sleep ==
  /\ pc = "sleep"
  /\ log' = Append(log, SleepEvent(SleepSeconds))
  /\ i' = i + 1
  /\ IF i + 1 \in Range(retry)
     THEN pc' = "run" /\ UNCHANGED <<dres, result>>
     ELSE /\ pc' = "done"
          /\ dres' = Return(None)
          /\ result' = Continue(op, Return(None), obj, disk)
  /\ UNCHANGED <<which, module, import_error, DIRAC_ENV_WRAPPER, provider,
                 obj, disk, op, retry, raise_workflow_error, _cmd, runs>>

\* the caller has the result; the object is ready for the next call
Finish ==
  /\ pc = "done"
  /\ op' = "idle" /\ pc' = "idle" /\ i' = 0 /\ retry' = 0
  /\ raise_workflow_error' = TRUE /\ _cmd' = <<>> /\ runs' = <<>>
  /\ log' = <<>> /\ dres' = NoOutcome /\ result' = NoOutcome
  /\ UNCHANGED <<which, module, import_error, DIRAC_ENV_WRAPPER, provider,
                 obj, disk>>

Next ==
  \/ Import
  \/ \E r \in RetryValues : ProviderInit(r)
  \/ \E rf \in RemoteFiles, lf \in LocalFiles, e \in BOOLEAN : ObjectInit(rf, lf, e)
  \/ \E o \in Overrides, rwe \in BOOLEAN : Call_dirac(o, rwe)
  \/ CallExists
  \/ CallDownload
  \/ CallUpload
  \/ Call_lfn
  \/ RunProcess
  \/ Sleep
  \/ Finish

Spec == Init /\ [][Next]_vars

(* ------------------ the logical name as a pure function --------------- *)
PathChunks == {Scheme, <<"a">>, <<"L", "F">>, <<"N", ":", "/", "/">>}
PathSet == TextsOver(PathChunks, MaxPathChunks)

\* an object of a default provider on any path of PathSet
InitLfn ==
  /\ which = [lb |-> TRUE, base |-> TRUE]
  /\ module = "loaded" /\ import_error = ""
  /\ DIRAC_ENV_WRAPPER = DetectWrapper(TRUE, TRUE).wrapper
  /\ provider = [made |-> TRUE, retry |-> DefaultRetry]
  /\ \E rf \in PathSet, lf \in LocalFiles :
       obj = [made |-> TRUE, remote_file |-> rf, local_file |-> lf]
  /\ disk = FALSE
  /\ CallIdle

NextLfn == Call_lfn \/ Finish

SpecLfn == InitLfn /\ [][NextLfn]_vars

(* ------------------------------ claims -------------------------------- *)
UsesDirac == op \in {"_dirac", "exists", "download", "upload"}

\* lines 109, 157, 198: the tool an operation runs
ToolOf(o) ==
  IF o = "download" THEN "dirac-dms-get-file"
  ELSE IF o = "upload" THEN "dirac-dms-add-file"
  ELSE "dirac-dms-lfn-metadata"

AllNonZero == \A k \in 1..Len(runs) : runs[k].rc = "nonzero"
LastRun == runs[Len(runs)]
ZeroExit == runs /= <<>> /\ LastRun.rc = "zero"

\* C1: with a retry count R >= 0, an execution through _dirac whose process
\* exits non-zero on every attempt never returns a value, and when it ends it
\* has run the process exactly R+1 times and raised: a WorkflowError in
\* wrapping mode, the CalledProcessError itself otherwise.
C1_AllFailRaises ==
  (UsesDirac /\ retry >= 0 /\ AllNonZero) =>
     /\ dres.kind /= "return"
     /\ Len(runs) <= retry + 1
     /\ pc = "done" =>
          /\ Len(runs) = retry + 1
          /\ dres.kind = "raise"
          /\ dres.exc = IF raise_workflow_error THEN "WorkflowError"
                        ELSE "CalledProcessError"

C1_Witness ==
  /\ op = "_dirac" /\ pc = "done" /\ retry >= 1 /\ raise_workflow_error
  /\ Len(runs) = retry + 1 /\ AllNonZero
  /\ dres.kind = "raise" /\ dres.exc = "WorkflowError"

\* C2: with a retry count R >= 0, an execution through _dirac in which some
\* attempt exits zero has ended at that attempt: it is attempt k <= R+1, the
\* k-1 attempts before it exited non-zero, no attempt follows it, and _dirac
\* returned the standard output of attempt k.
C2_FirstSuccessReturns ==
  (UsesDirac /\ retry >= 0 /\ \E k \in 1..Len(runs) : runs[k].rc = "zero") =>
     /\ pc = "done"
     /\ LastRun.rc = "zero"
     /\ \A j \in 1..(Len(runs) - 1) : runs[j].rc = "nonzero"
     /\ Len(runs) <= retry + 1
     /\ dres = Return(Str(LastRun.stdout))

C2_Witness ==
  /\ op = "_dirac" /\ pc = "done" /\ retry >= 2 /\ Len(runs) = 2
  /\ runs[1].rc = "nonzero" /\ runs[2].rc = "zero"
  /\ runs[1].stdout /= runs[2].stdout
  /\ dres = Return(Str(runs[2].stdout))

\* C3: for a remote path that begins with "LFN://", _lfn returns the path
\* without its first 6 characters, whatever the rest of the path contains.
C3_StripsPrefixOnly ==
  (op = "_lfn" /\ pc = "done" /\ StartsWith(obj.remote_file, Scheme)) =>
     result = Return(Str(SubSeq(obj.remote_file, Len(Scheme) + 1,
                                Len(obj.remote_file))))

(* download(): the conditions the claim C4 names, read off the state *)
DlStarted == In(DownloadingMarker, LastRun.stdout)
DlFailed == In(FailedMarker, LastRun.stdout)
DlSuccessful == In(SuccessfulMarker, LastRun.stdout)
DlPair ==
  In(_lfn(obj.remote_file) \o PairSep \o obj.local_file, LastRun.stdout)
DlAllFour == DlStarted /\ DlSuccessful /\ DlPair /\ disk
DownloadEnded == op = "download" /\ pc = "done" /\ ZeroExit

\* C4 as stated: after a zero exit, download() returns the local path only
\* when all four conditions hold, returns an empty result without raising
\* when one of them is missing and "Failed :" is absent, and raises a
\* WorkflowError whenever the output contains "Failed :".
C4_AsStated ==
  DownloadEnded =>
     /\ result = Return(Str(obj.local_file)) => DlAllFour
     /\ (~DlAllFour /\ ~DlFailed) => result = Return(None)
     /\ DlFailed => (result.kind = "raise" /\ result.exc = "WorkflowError")

\* C4 amended: after a zero exit, an output without "Downloading file to"
\* makes download() raise an AssertionError, with or without "Failed :";
\* an output with "Downloading file to" and "Failed :" raises a
\* WorkflowError that embeds the output; otherwise download() returns the
\* local path exactly when the output has "Successful :" and the pair
\* "<lfn> : <local-path>" and the local path is on disk, and an empty result
\* when one of these three is missing.
C4_Download ==
  DownloadEnded =>
     /\ ~DlStarted => (result.kind = "raise" /\ result.exc = "AssertionError")
     /\ (DlStarted /\ DlFailed) =>
          result = Raise("WorkflowError", LastRun.stdout)
     /\ (DlStarted /\ ~DlFailed /\ DlSuccessful /\ DlPair /\ disk) =>
          result = Return(Str(obj.local_file))
     /\ (DlStarted /\ ~DlFailed /\ ~(DlSuccessful /\ DlPair /\ disk)) =>
          result = Return(None)

\* the output has everything but "Downloading file to": an assertion failure
C4_Witness ==
  /\ DownloadEnded /\ ~DlStarted /\ ~DlFailed /\ DlSuccessful /\ DlPair /\ disk
  /\ result.kind = "raise" /\ result.exc = "AssertionError"

\* C5: upload() never returns anything but true, and after a zero exit of
\* the publish tool it raises an AssertionError when the output lacks
\* "Successful : " and returns true when the output contains it.
C5_Upload ==
  op = "upload" =>
     /\ result.kind = "return" => result.value = Bool(TRUE)
     /\ (pc = "done" /\ ZeroExit) =>
          IF In(UploadMarker, LastRun.stdout)
          THEN result = Return(Bool(TRUE))
          ELSE result.kind = "raise" /\ result.exc = "AssertionError"

\* "Successful :" without the space after the colon is not the marker
C5_Witness ==
  /\ op = "upload" /\ pc = "done" /\ ZeroExit
  /\ In(SuccessfulMarker, LastRun.stdout) /\ ~In(UploadMarker, LastRun.stdout)
  /\ result.kind = "raise" /\ result.exc = "AssertionError"

C7_EnvironmentDetection ==
  module /= "unloaded" =>
     /\ which.lb => (module = "loaded" /\ DIRAC_ENV_WRAPPER = "lb-dirac")
     /\ (~which.lb /\ which.base) =>
          (module = "loaded" /\ DIRAC_ENV_WRAPPER = "")
     /\ (~which.lb /\ ~which.base) =>
          (module = "failed" /\ import_error = "WorkflowError")
     /\ module = "failed" =>
          (~provider.made /\ ~obj.made /\ op = "idle" /\ runs = <<>>)

C7_Witness ==
  /\ ~which.lb /\ ~which.base
  /\ module = "failed" /\ import_error = "WorkflowError"

\* C8: the command line that _dirac has handed to sp.run starts with the wrapper and then the tool
\* name when a wrapper was detected, and with the tool name itself when no
\* wrapper was detected.
C8_CommandLine ==
  (UsesDirac /\ runs /= <<>>) =>
     IF DIRAC_ENV_WRAPPER /= ""
     THEN _cmd[1] = DIRAC_ENV_WRAPPER /\ _cmd[2] = ToolOf(op)
     ELSE _cmd[1] = ToolOf(op)

\* C9: in one execution of _dirac the log is run, sleep, run, ...: every
\* sleep lasts 1 second, follows an attempt that exited non-zero and was not
\* the last allowed one, and is followed by the next attempt; such an attempt
\* is always followed by a sleep; an execution that has ended after n >= 1
\* attempts has slept n-1 times.
C9_AttemptsAndWaitsAlternate ==
  UsesDirac =>
     /\ \A j \in 1..Len(log) :
          log[j] = IF j % 2 = 1 THEN RunEvent ELSE SleepEvent(1)
     /\ Len(runs) = (Len(log) + 1) \div 2
     /\ \A j \in 1..Len(log) :
          (j % 2 = 0) =>
             /\ runs[j \div 2].rc = "nonzero"
             /\ (j \div 2) - 1 < retry
             /\ (j < Len(log) \/ pc = "run")
     /\ \A k \in 1..Len(runs) :
          (runs[k].rc = "nonzero" /\ k - 1 < retry) =>
             (Len(log) >= 2 * k \/ (Len(log) = 2 * k - 1 /\ pc = "sleep"))
     /\ (pc = "done" /\ Len(runs) >= 1) => Len(log) = 2 * Len(runs) - 1

C9_Witness ==
  /\ UsesDirac /\ pc = "done" /\ Len(runs) = 3 /\ Len(log) = 5
  /\ log[2] = SleepEvent(1) /\ log[4] = SleepEvent(1) /\ log[5] = RunEvent

\* C10: in every execution of _dirac the effective retry count is
\* non-negative, and an execution that has ended has made at least 1 and at
\* most retry+1 attempts; none returns without an attempt.
C10_RetryBounds ==
  (UsesDirac /\ pc /= "idle") =>
     /\ retry >= 0
     /\ Len(runs) <= retry + 1
     /\ pc = "done" => Len(runs) >= 1
     /\ dres.kind = "return" => Len(runs) >= 1

====
